---- MODULE Spec2Model ----
(***************************************************************************)
(* A model of sentence-plagiarism: the sentence segmenter and match finder *)
(* of plagiarism_checker.py, the similarity metrics of similarity.py, the  *)
(* PlagiarismMatch validation of visualization/models.py and the segment   *)
(* builder of visualization/text_processing.py.                            *)
(*                                                                         *)
(* A Python str is a sequence of one-character strings; a float score is   *)
(* an exact fraction <<numerator, denominator>>.                           *)
(***************************************************************************)
EXTENDS Integers, Sequences, FiniteSets, TLC

VARIABLES
    \* split_text_into_segments (text_processing.py)
    content,          \* the document text
    matches,          \* the list of PlagiarismMatch objects
    positions,        \* the sorted event list
    segments,         \* the output list of SegmentType
    current_pos,      \* the sweep cursor
    active_matches,   \* the list of currently active matches
    pos_idx,          \* how many events the for loop has consumed
    seg_pc,           \* where the call is: idle, start, lead, loop, done
    \* _text_to_sentences (plagiarism_checker.py)
    text,             \* the argument
    sentences,        \* the returned list of (sentence, start, end)
    sent_pc,          \* idle, call, done
    \* _split_texts_to_sentences and _cross_check_sentences
    input_doc,            \* the examined text
    reference_docs,       \* the dict name -> text, in insertion order
    min_length,
    similarity_threshold,
    similarity_metric,
    input_sents,          \* the retained input sentences
    ref_doc_sents,        \* the dict name -> retained sentences
    results,              \* the list the match records are appended to
    chk_pc,               \* idle, start, split, done, error, key_error
    \* PlagiarismMatch(...) (visualization/models.py)
    pm_args,              \* the eight constructor arguments
    pm_obj,               \* the constructed object, <<>> while there is none
    pm_pc,                \* idle, call, ok, or the check that raised
    \* a direct call of one metric of similarity.py
    met_arg1,             \* the first argument: a set or a string
    met_arg2,             \* the second argument
    met_p,                \* the boost factor p of jaro_winkler_similarity
    met_name,             \* the metric that was called
    met_out,              \* the returned score
    met_pc,               \* idle, sets, strings, done
    \* check (plagiarism_checker.py); its locals input_doc, reference_docs,
    \* input_sents, ref_doc_sents and results are the variables above
    examined_text,        \* the content of examined_file
    reference_files,      \* the reference files: path and content, in order
    missing_files,        \* the paths that cannot be opened for reading
    quiet,
    output_file,          \* a path, or "None"
    text_output_file,     \* a path, or "None"
    console,              \* what was printed, in order
    json_written,         \* <<the list json.dump wrote>>, <<>> before
    text_written,         \* <<the list written as text>>, <<>> before
    returned,             \* <<the list check returned>>, <<>> before
    run_pc                \* idle, read, split, match, json, text, return,
                          \* returned, raised, file_not_found

segVars == <<content, matches, positions, segments, current_pos,
             active_matches, pos_idx, seg_pc>>
sentVars == <<text, sentences, sent_pc>>
chkVars == <<input_doc, reference_docs, min_length, similarity_threshold,
             similarity_metric, input_sents, ref_doc_sents, results, chk_pc>>
pmVars == <<pm_args, pm_obj, pm_pc>>
metVars == <<met_arg1, met_arg2, met_p, met_name, met_out, met_pc>>
runVars == <<examined_text, reference_files, missing_files, quiet, output_file,
             text_output_file, console, json_written, text_written,
             returned, run_pc>>

vars == <<segVars, sentVars, chkVars, pmVars, metVars, runVars>>

(***************************************************************************)
(* Bounds of the model.                                                    *)
(***************************************************************************)
MaxContentLen == 3
MaxMatches == 2
MaxTextLen == 6
MaxDocLen == 3
MaxSentenceLen == 2
MaxTokens == 3
MaxStringLen == 6

(***************************************************************************)
(* Python helpers.                                                         *)
(***************************************************************************)
Min(a, b) == IF a < b THEN a ELSE b
Max(a, b) == IF a > b THEN a ELSE b

\* A slice bound as Python normalises it: negative counts from the end,
\* then clamped to [0, n].
ClampIndex(i, n) == IF i < 0 THEN Max(i + n, 0) ELSE Min(i, n)

\* s[lo:hi] of Python.
PySlice(s, lo, hi) ==
    LET a == ClampIndex(lo, Len(s))
        b == ClampIndex(hi, Len(s))
    IN  IF a >= b THEN <<>> ELSE SubSeq(s, a + 1, b)

\* s[lo:] of Python.
PySliceFrom(s, lo) == PySlice(s, lo, Len(s))

\* x in list (by ==).
InList(x, l) == \E i \in 1..Len(l) : l[i] = x

\* list.remove(x): drops the first element equal to x.
RECURSIVE ListRemove(_, _)
ListRemove(l, x) ==
    IF l = <<>> THEN <<>>
    ELSE IF Head(l) = x THEN Tail(l)
    ELSE <<Head(l)>> \o ListRemove(Tail(l), x)

\* Strings of length exactly n, and of length at most n, over an alphabet.
StringsOfLen(alphabet, n) == [1..n -> alphabet]
StringsUpTo(alphabet, n) == UNION {StringsOfLen(alphabet, k) : k \in 0..n}

(***************************************************************************)
(* PlagiarismMatch (visualization/models.py).                              *)
(***************************************************************************)

\* The dataclass's eight fields.
PlagiarismMatch(isent, istart, iend, rsent, rstart, rend, doc, score) ==
    [input_sentence |-> isent, input_start_pos |-> istart,
     input_end_pos |-> iend, reference_sentence |-> rsent,
     reference_start_pos |-> rstart, reference_end_pos |-> rend,
     reference_document |-> doc, similarity_score |-> score]

\* 0 <= score <= 1 for a fraction with a positive denominator.
ScoreInUnitInterval(score) == 0 <= score[1] /\ score[1] <= score[2]

\* Mutant: the score is validated before the lengths.
PostInit_ScoreFirst(m) ==
    IF ~ScoreInUnitInterval(m.similarity_score)
    THEN "score_error"
    ELSE IF Len(m.input_sentence) # m.input_end_pos - m.input_start_pos + 1
    THEN "input_length_error"
    ELSE IF Len(m.reference_sentence)
            # m.reference_end_pos - m.reference_start_pos + 1
    THEN "reference_length_error"
    ELSE "ok"

\* __post_init__: which check raises ValueError first, or "ok".
PostInit(m) ==
    IF Len(m.input_sentence) # m.input_end_pos - m.input_start_pos + 1
    THEN "input_length_error"
    ELSE IF Len(m.reference_sentence)
            # m.reference_end_pos - m.reference_start_pos + 1
    THEN "reference_length_error"
    ELSE IF ~ScoreInUnitInterval(m.similarity_score)
    THEN "score_error"
    ELSE "ok"

(***************************************************************************)
(* _text_to_sentences (plagiarism_checker.py).                             *)
(***************************************************************************)

\* Character classes of the regular expression and of str.isspace.
IsSpace(c) == c \in {" ", "\t", "\n"}
IsUpper(c) == c \in {"A", "B"}
IsLower(c) == c \in {"a", "b"}
IsWord(c) == IsUpper(c) \/ IsLower(c) \/ c \in {"1", "_"}
IsTerminator(c) == c \in {".", "?", "!"}

\* t[i] of Python for 0 <= i < len(t).
At(t, i) == t[i + 1]

\* Mutant: the pattern without the lookbehind (?<![A-Z][a-z]\.).
PatternMatchesAt_NoTitleLookbehind(t, i) ==
    /\ 1 <= i /\ i < Len(t)
    /\ IsSpace(t[i + 1])
    /\ IsTerminator(t[i])
    /\ ~(/\ i >= 4
         /\ IsWord(t[i - 3])
         /\ t[i - 2] = "."
         /\ IsWord(t[i - 1]))

\* Mutant: the pattern without its two negative lookbehinds.
PatternMatchesAt_NoLookbehinds(t, i) ==
    /\ 1 <= i /\ i < Len(t)
    /\ IsSpace(t[i + 1])
    /\ IsTerminator(t[i])

\* The pattern (?<!\w\.\w.)(?<![A-Z][a-z]\.)(?<=\.|\?|!)\s matches the
\* character at index i.
PatternMatchesAt(t, i) ==
    /\ 0 <= i /\ i < Len(t)
    /\ IsSpace(At(t, i))
    /\ i >= 1 /\ IsTerminator(At(t, i - 1))
    /\ ~(/\ i >= 4
         /\ IsWord(At(t, i - 4))
         /\ At(t, i - 3) = "."
         /\ IsWord(At(t, i - 2))
         /\ At(t, i - 1) # "\n")
    /\ ~(/\ i >= 3
         /\ IsUpper(At(t, i - 3))
         /\ IsLower(At(t, i - 2))
         /\ At(t, i - 1) = ".")

\* [m.start() + 1 for m in re.finditer(pattern, text)], from index i on.
RECURSIVE SplitPositionsFrom(_, _)
SplitPositionsFrom(t, i) ==
    IF i >= Len(t) THEN <<>>
    ELSE (IF PatternMatchesAt(t, i) THEN <<i + 1>> ELSE <<>>)
         \o SplitPositionsFrom(t, i + 1)

\* positions = [0] + split_positions + [len(text)].
SentencePositions(t) == <<0>> \o SplitPositionsFrom(t, 0) \o <<Len(t)>>

\* Mutant: the loop without the isspace test.
SkipLeadingSpace_NoSpaceTest(t, start, end) ==
    IF start < end THEN end ELSE start

\* while start < end and text[start].isspace(): start += 1
RECURSIVE SkipLeadingSpace(_, _, _)
SkipLeadingSpace(t, start, end) ==
    IF start < end /\ IsSpace(At(t, start))
    THEN SkipLeadingSpace(t, start + 1, end)
    ELSE start

\* Mutant: sentence == "" instead of sentence.strip() == "".
StripIsEmpty_NoStrip(str) == str = <<>>

\* sentence.strip() == "".
StripIsEmpty(str) == \A i \in 1..Len(str) : IsSpace(str[i])

\* Mutant: the range end without the - 1.
RangeEnd_NoMinusOne(q) == IF q = -1 THEN 0 ELSE q

\* The end of range (p, q): positions[i + 1] - 1, and 0 when that is -1.
RangeEnd(q) == IF q - 1 = -1 THEN 0 ELSE q - 1

\* One iteration of the extraction loop over the range positions p, q:
\* the tuples it appends (none when the sentence is all whitespace).
RangeSentence(t, p, q) ==
    LET end == RangeEnd(q)
        start == SkipLeadingSpace(t, p, end)
        sentence == PySlice(t, start, end + 1)
    IN  IF StripIsEmpty(sentence) THEN <<>>
        ELSE <<[sentence |-> sentence, start |-> start, end |-> end]>>

RECURSIVE ExtractFrom(_, _, _)
ExtractFrom(t, ps, i) ==
    IF i > Len(ps) - 1 THEN <<>>
    ELSE RangeSentence(t, ps[i], ps[i + 1]) \o ExtractFrom(t, ps, i + 1)

TextToSentences(t) == ExtractFrom(t, SentencePositions(t), 1)

SentenceAlphabet == {"a", "A", ".", "?", " "}

SentInit ==
    /\ text \in StringsUpTo(SentenceAlphabet, MaxTextLen)
    /\ sentences = <<>>
    /\ sent_pc = "call"

\* The call _text_to_sentences(text).
CallTextToSentences ==
    /\ sent_pc = "call"
    /\ sentences' = TextToSentences(text)
    /\ sent_pc' = "done"
    /\ UNCHANGED text
    /\ UNCHANGED <<segVars, chkVars, pmVars, metVars, runVars>>

(***************************************************************************)
(* The similarity metrics (similarity.py), on sets, as exact fractions.    *)
(***************************************************************************)
Zero == <<0, 1>>
Ratio(n, d) == IF d # 0 THEN <<n, d>> ELSE Zero

\* f > g, f = g for fractions with positive denominators.
FracGreater(f, g) == f[1] * g[2] > g[1] * f[2]
FracEqual(f, g) == f[1] * g[2] = g[1] * f[2]

jaccard_similarity(set1, set2) ==
    Ratio(Cardinality(set1 \cap set2), Cardinality(set1 \cup set2))

cosine_similarity(set1, set2) ==
    Ratio(Cardinality(set1 \cap set2), Cardinality(set1) * Cardinality(set2))

sorensen_dice_similarity(set1, set2) ==
    Ratio(2 * Cardinality(set1 \cap set2),
          Cardinality(set1) + Cardinality(set2))

\* Mutant: the larger set size as the denominator.
overlap_similarity_Max(set1, set2) ==
    Ratio(Cardinality(set1 \cap set2),
          Max(Cardinality(set1), Cardinality(set2)))

overlap_similarity(set1, set2) ==
    Ratio(Cardinality(set1 \cap set2),
          Min(Cardinality(set1), Cardinality(set2)))

\* alpha = 0.5: the denominator i + 0.5 (|A| - i) + 0.5 (|B| - i), doubled.
tversky_similarity(set1, set2) ==
    LET i == Cardinality(set1 \cap set2)
    IN  Ratio(2 * i,
              2 * i + (Cardinality(set1) - i) + (Cardinality(set2) - i))

\* jaro_similarity as _cross_check_sentences calls it, with two sets: the
\* loop over s1 slices s2, which a set does not support; with s1 empty the
\* loop does not run, m == 0 and 0.0 is returned.
jaro_similarity_of_sets(set1, set2) ==
    IF set1 = {} THEN Zero ELSE "TypeError"

\* jaro_winkler_similarity with two sets: jaro_similarity first; zip over
\* an empty s1 adds no prefix.
jaro_winkler_similarity_of_sets(set1, set2) ==
    jaro_similarity_of_sets(set1, set2)

(***************************************************************************)
(* jaro_similarity and jaro_winkler_similarity (similarity.py) on strings.  *)
(***************************************************************************)

\* match_distance = max(len_s1, len_s2) // 2 - 1.
MatchDistance(s1, s2) == (Max(Len(s1), Len(s2)) \div 2) - 1

\* s2[start:end] for the character at index i of s1.
Window(s1, s2, i) ==
    LET start == Max(0, i - MatchDistance(s1, s2))
        end == Min(i + MatchDistance(s1, s2) + 1, Len(s2))
    IN  PySlice(s2, start, end)

\* w.index(c) + 1, for c in w.
FirstIndex(w, c) ==
    CHOOSE k \in 1..Len(w) : w[k] = c /\ \A j \in 1..(k - 1) : w[j] # c

\* The loop over s1 from index i on: the pairs appended to
\* (common_chars_s1, common_chars_s2).
RECURSIVE CommonChars(_, _, _)
CommonChars(s1, s2, i) ==
    IF i >= Len(s1) THEN <<>>
    ELSE LET w == Window(s1, s2, i)
             char == At(s1, i)
         IN  (IF InList(char, w)
              THEN << <<char, w[FirstIndex(w, char)]>> >>
              ELSE <<>>) \o CommonChars(s1, s2, i + 1)

\* sum(c1 != c2 for c1, c2 in zip(...)) // 2.
Transpositions(cc) ==
    Cardinality({k \in 1..Len(cc) : cc[k][1] # cc[k][2]}) \div 2

\* (m / len_s1 + m / len_s2 + (m - transpositions) / m) / 3 as a fraction.
JaroFormula(m, t, len1, len2) ==
    <<m * m * len2 + m * m * len1 + (m - t) * len1 * len2,
      3 * len1 * len2 * m>>

jaro_similarity(s1, s2) ==
    LET cc == CommonChars(s1, s2, 0)
        m == Len(cc)
    IN  IF m = 0 THEN Zero
        ELSE JaroFormula(m, Transpositions(cc), Len(s1), Len(s2))

\* The prefix loop over zip(s1, s2) from index k on.
RECURSIVE CommonPrefixLen(_, _, _)
CommonPrefixLen(s1, s2, k) ==
    IF k >= Len(s1) \/ k >= Len(s2) THEN 0
    ELSE IF At(s1, k) = At(s2, k) THEN 1 + CommonPrefixLen(s1, s2, k + 1)
    ELSE 0

\* jaro_sim + common_prefix_len * p * (1 - jaro_sim), for fractions jaro_sim
\* and p.
WinklerFormula(jaro_sim, prefix, p) ==
    <<jaro_sim[1] * p[2] + prefix * p[1] * (jaro_sim[2] - jaro_sim[1]),
      jaro_sim[2] * p[2]>>

jaro_winkler_similarity(s1, s2, p) ==
    WinklerFormula(jaro_similarity(s1, s2), CommonPrefixLen(s1, s2, 0), p)

MetricNames ==
    {"jaccard_similarity", "cosine_similarity", "sorensen_dice_similarity",
     "overlap_similarity", "tversky_similarity", "jaro_similarity",
     "jaro_winkler_similarity"}

\* The names that are local when locals() is evaluated, besides the seven
\* imported metrics: the parameters of _cross_check_sentences.
ParameterNames ==
    {"input_sents", "ref_doc_sents", "results", "similarity_threshold",
     "quiet", "similarity_metric"}

\* locals()[similarity_metric]: a metric, a parameter's value (which is
\* not callable), or KeyError.
MetricLookup(name) ==
    IF name \in MetricNames THEN "metric"
    ELSE IF name \in ParameterNames THEN "not_callable"
    ELSE "KeyError"

\* metric_function(input_tokens, ref_tokens) for locals()[similarity_metric];
\* calling a parameter's value raises TypeError.
MetricFunction(name, set1, set2) ==
    CASE name = "jaccard_similarity" -> jaccard_similarity(set1, set2)
      [] name = "cosine_similarity" -> cosine_similarity(set1, set2)
      [] name = "sorensen_dice_similarity" ->
            sorensen_dice_similarity(set1, set2)
      [] name = "overlap_similarity" -> overlap_similarity(set1, set2)
      [] name = "tversky_similarity" -> tversky_similarity(set1, set2)
      [] name = "jaro_similarity" -> jaro_similarity_of_sets(set1, set2)
      [] name = "jaro_winkler_similarity" ->
            jaro_winkler_similarity_of_sets(set1, set2)
      [] OTHER -> "TypeError"

(***************************************************************************)
(* _split_texts_to_sentences and _cross_check_sentences                    *)
(* (plagiarism_checker.py).                                                *)
(***************************************************************************)

\* str.lower() of one character.
Lower(c) == IF c = "A" THEN "a" ELSE IF c = "B" THEN "b" ELSE c

\* set(re.findall(r"\b\w+\b", s.lower())): the maximal word-character runs
\* of s from index i on, cur being the run that ends just before i.
RECURSIVE TokensFrom(_, _, _)
TokensFrom(str, i, cur) ==
    IF i > Len(str) THEN (IF cur = <<>> THEN {} ELSE {cur})
    ELSE IF IsWord(str[i])
    THEN TokensFrom(str, i + 1, Append(cur, Lower(str[i])))
    ELSE (IF cur = <<>> THEN {} ELSE {cur}) \cup TokensFrom(str, i + 1, <<>>)

Tokens(str) == TokensFrom(str, 1, <<>>)

\* str.strip().
RECURSIVE LStrip(_)
LStrip(str) ==
    IF str # <<>> /\ IsSpace(Head(str)) THEN LStrip(Tail(str)) ELSE str
RECURSIVE RStrip(_)
RStrip(str) ==
    IF str # <<>> /\ IsSpace(str[Len(str)])
    THEN RStrip(SubSeq(str, 1, Len(str) - 1)) ELSE str
Strip(str) == RStrip(LStrip(str))

\* Mutant: len(s) > min_length.
LongEnough_Strict(sent, minlen) == Len(sent.sentence) > minlen

\* The filter if len(s) >= min_length.
LongEnough(sent, minlen) == Len(sent.sentence) >= minlen

RECURSIVE FilterSentences(_, _)
FilterSentences(sents, minlen) ==
    IF sents = <<>> THEN <<>>
    ELSE (IF LongEnough(Head(sents), minlen) THEN <<Head(sents)>> ELSE <<>>)
         \o FilterSentences(Tail(sents), minlen)

\* The text of a reference document that is split into sentences.
RefContentClean(ref_content) == Strip(ref_content)

\* input_sent_data of _split_texts_to_sentences.
SplitInput(doc, minlen) == FilterSentences(TextToSentences(doc), minlen)

\* ref_doc_sents of _split_texts_to_sentences.
SplitReferences(docs, minlen) ==
    [k \in 1..Len(docs) |->
        [name |-> docs[k].name,
         sents |-> FilterSentences(
                       TextToSentences(RefContentClean(docs[k].content)),
                       minlen)]]

\* The (input sentence, document, reference sentence) triples in the order
\* the nested loops visit them.
RECURSIVE RefTriples(_, _, _)
RefTriples(isent, doc, k) ==
    IF k > Len(doc.sents) THEN <<>>
    ELSE <<[input |-> isent, doc |-> doc.name, ref |-> doc.sents[k]]>>
         \o RefTriples(isent, doc, k + 1)
\* Mutant: the documents are visited from the last inserted to the first.
RECURSIVE DocTriples_Reversed(_, _, _)
DocTriples_Reversed(isent, rds, d) ==
    IF d > Len(rds) THEN <<>>
    ELSE DocTriples_Reversed(isent, rds, d + 1) \o RefTriples(isent, rds[d], 1)

RECURSIVE DocTriples(_, _, _)
DocTriples(isent, rds, d) ==
    IF d > Len(rds) THEN <<>>
    ELSE RefTriples(isent, rds[d], 1) \o DocTriples(isent, rds, d + 1)
RECURSIVE Triples(_, _, _)
Triples(isents, rds, i) ==
    IF i > Len(isents) THEN <<>>
    ELSE DocTriples(isents[i], rds, 1) \o Triples(isents, rds, i + 1)

\* similarity_score of one triple.
TripleScore(metric, tr) ==
    MetricFunction(metric, Tokens(tr.input.sentence), Tokens(tr.ref.sentence))

\* Mutant: >= instead of >.
AboveThreshold_NonStrict(score, threshold) ==
    FracGreater(score, threshold) \/ FracEqual(score, threshold)

\* Mutant: the comparison the other way round.
AboveThreshold_Inverted(score, threshold) == FracGreater(threshold, score)

\* if similarity_score > similarity_threshold.
AboveThreshold(score, threshold) == FracGreater(score, threshold)

\* Mutant: the record with exclusive end offsets.
MatchRecord_ExclusiveEnd(tr, score) ==
    [input_sentence |-> tr.input.sentence,
     input_start_pos |-> tr.input.start,
     input_end_pos |-> tr.input.end + 1,
     reference_sentence |-> tr.ref.sentence,
     reference_start_pos |-> tr.ref.start,
     reference_end_pos |-> tr.ref.end + 1,
     reference_document |-> tr.doc,
     similarity_score |-> score]

\* The dict appended for a triple.
MatchRecord(tr, score) ==
    [input_sentence |-> tr.input.sentence,
     input_start_pos |-> tr.input.start,
     input_end_pos |-> tr.input.end,
     reference_sentence |-> tr.ref.sentence,
     reference_start_pos |-> tr.ref.start,
     reference_end_pos |-> tr.ref.end,
     reference_document |-> tr.doc,
     similarity_score |-> score]

\* The loop from triple k on: the results list and how the call ends.
RECURSIVE CrossCheckFrom(_, _, _, _, _)
CrossCheckFrom(trs, k, metric, threshold, res) ==
    IF k > Len(trs) THEN [results |-> res, pc |-> "done"]
    ELSE LET score == TripleScore(metric, trs[k])
         IN  IF score = "TypeError" THEN [results |-> res, pc |-> "error"]
             ELSE CrossCheckFrom(trs, k + 1, metric, threshold,
                      IF AboveThreshold(score, threshold)
                      THEN Append(res, MatchRecord(trs[k], score))
                      ELSE res)

\* Inputs: every examined text up to MaxDocLen characters, against a
\* reference corpus of one document, or of two, out of fixed texts.
DocAlphabet == {"a", "b", ".", " "}
LongerDocuments ==
    {<<"a", ".", " ", "b">>, <<"a", " ", "b", ".", " ", "a">>}
Documents == StringsUpTo(DocAlphabet, MaxDocLen) \cup LongerDocuments
ReferenceTexts ==
    {<<>>, <<"a">>, <<" ", "a">>, <<"a", " ", "b">>, <<"b", ".">>,
     <<"a", ".", " ", "b">>, <<".">>, <<"a", " ", "b", ".", " ", "a", " ">>}
SecondTexts == {<<"a">>, <<"a", " ", "b">>, <<" ", "a", ".", " ", "b">>}
Corpora ==
    {<<[name |-> "doc1.txt", content |-> c]>> : c \in ReferenceTexts}
    \cup {<<[name |-> "doc1.txt", content |-> c1],
            [name |-> "doc2.txt", content |-> c2]>> :
              c1 \in SecondTexts, c2 \in SecondTexts}
Thresholds == {<<0, 1>>, <<1, 2>>}
MinLengths == {0, 2}
\* Names that are not metrics: one that is no local name, one that is a
\* parameter.
OtherNames == {"levenshtein", "results"}
RequestedNames == MetricNames \cup OtherNames

ChkInit ==
    /\ input_doc \in Documents
    /\ reference_docs \in Corpora
    /\ min_length \in MinLengths
    /\ similarity_threshold \in Thresholds
    /\ similarity_metric \in RequestedNames
    /\ input_sents = <<>>
    /\ ref_doc_sents = <<>>
    /\ results = <<>>
    /\ chk_pc = "start"

\* The call _split_texts_to_sentences(input_doc, reference_docs, min_length).
SplitTextsToSentences ==
    /\ chk_pc = "start"
    /\ input_sents' = SplitInput(input_doc, min_length)
    /\ ref_doc_sents' = SplitReferences(reference_docs, min_length)
    /\ chk_pc' = "split"
    /\ UNCHANGED <<input_doc, reference_docs, min_length,
                   similarity_threshold, similarity_metric, results>>
    /\ UNCHANGED <<segVars, sentVars, pmVars, metVars, runVars>>

\* The call _cross_check_sentences(input_sents, ref_doc_sents, results, ...).
CrossCheckSentences ==
    /\ chk_pc = "split"
    /\ IF MetricLookup(similarity_metric) = "KeyError"
       THEN results' = results /\ chk_pc' = "key_error"
       ELSE LET out == CrossCheckFrom(
                           Triples(input_sents, ref_doc_sents, 1), 1,
                           similarity_metric, similarity_threshold, results)
            IN  results' = out.results /\ chk_pc' = out.pc
    /\ UNCHANGED <<input_doc, reference_docs, min_length,
                   similarity_threshold, similarity_metric, input_sents,
                   ref_doc_sents>>
    /\ UNCHANGED <<segVars, sentVars, pmVars, metVars, runVars>>

(***************************************************************************)
(* Constructing a PlagiarismMatch.                                         *)
(***************************************************************************)
Scores == {<<-1, 2>>, <<0, 1>>, <<1, 2>>, <<1, 1>>, <<3, 2>>}
SentenceTexts == StringsUpTo({"x"}, MaxSentenceLen)
Offsets == -1..MaxSentenceLen

PmInit ==
    /\ pm_args \in
          {PlagiarismMatch(isent, istart, iend, rsent, rstart, rend,
                           "ref.md", score) :
              isent \in SentenceTexts, istart \in Offsets, iend \in Offsets,
              rsent \in SentenceTexts, rstart \in Offsets, rend \in Offsets,
              score \in Scores}
    /\ pm_obj = <<>>
    /\ pm_pc = "call"

\* The generated __init__ stores the arguments, then __post_init__ runs.
Construct ==
    /\ pm_pc = "call"
    /\ pm_pc' = PostInit(pm_args)
    /\ pm_obj' = IF PostInit(pm_args) = "ok" THEN pm_args ELSE <<>>
    /\ UNCHANGED pm_args
    /\ UNCHANGED <<segVars, sentVars, chkVars, metVars, runVars>>

(***************************************************************************)
(* split_text_into_segments (visualization/text_processing.py).            *)
(***************************************************************************)

\* SegmentType(start, end, text, matches).
SegmentType(start, end, txt, ms) ==
    [start |-> start, end |-> end, text |-> txt, matches |-> ms]

\* The two events of each match, in the order the first loop appends them.
RECURSIVE EventsOf(_)
EventsOf(ms) ==
    IF ms = <<>> THEN <<>>
    ELSE <<[pos |-> Head(ms).input_start_pos, type |-> "start",
            match |-> Head(ms)],
           [pos |-> Head(ms).input_end_pos, type |-> "end",
            match |-> Head(ms)]>> \o EventsOf(Tail(ms))

\* Mutant: start events sorted before end events.
TypeRank_StartFirst(ev) == IF ev.type = "end" THEN 1 ELSE 0

\* The sort key (x[0], 0 if x[1] == "end" else 1).
TypeRank(ev) == IF ev.type = "end" THEN 0 ELSE 1
KeyLeq(e1, e2) ==
    \/ e1.pos < e2.pos
    \/ e1.pos = e2.pos /\ TypeRank(e1) <= TypeRank(e2)

\* list.sort is stable: an event goes after every event whose key is not
\* greater than its own.
RECURSIVE InsertEvent(_, _)
InsertEvent(sorted, ev) ==
    IF sorted = <<>> THEN <<ev>>
    ELSE IF KeyLeq(Head(sorted), ev)
    THEN <<Head(sorted)>> \o InsertEvent(Tail(sorted), ev)
    ELSE <<ev>> \o sorted

RECURSIVE SortPositions(_)
SortPositions(evs) ==
    IF evs = <<>> THEN <<>>
    ELSE InsertEvent(SortPositions(SubSeq(evs, 1, Len(evs) - 1)),
                     evs[Len(evs)])

\* Mutant: the update without the membership tests.
UpdateActive_NoMembershipTest(active, ev) ==
    IF ev.type = "start" THEN Append(active, ev.match)
    ELSE ListRemove(active, ev.match)

\* The update of active_matches for one event.
UpdateActive(active, ev) ==
    IF ev.type = "start"
    THEN IF ~InList(ev.match, active) THEN Append(active, ev.match)
         ELSE active
    ELSE IF InList(ev.match, active) THEN ListRemove(active, ev.match)
    ELSE active

\* The segment the loop emits before an event (the list is copied).
LoopSegment(c, cur, pos, active) ==
    SegmentType(cur, pos, PySlice(c, cur, pos), active)

\* Mutant: the new segment takes the place of the last emitted one.
EmitSegment_ReplaceLast(segs, c, cur, pos, active) ==
    IF pos > cur
    THEN IF segs = <<>> THEN <<LoopSegment(c, cur, pos, active)>>
         ELSE [segs EXCEPT ![Len(segs)] = LoopSegment(c, cur, pos, active)]
    ELSE segs

\* if pos > current_pos: segments.append(SegmentType(...)).
EmitSegment(segs, c, cur, pos, active) ==
    IF pos > cur THEN Append(segs, LoopSegment(c, cur, pos, active))
    ELSE segs

\* The segment before the first event.
LeadSegment(c, pos) == SegmentType(0, pos, PySlice(c, 0, pos), <<>>)

\* The segment after the last event.
TailSegment(c, cur) == SegmentType(cur, Len(c), PySliceFrom(c, cur), <<>>)

\* Inputs: the document is a prefix of DocumentText; a match carries the
\* non-empty text its inclusive range [start, end] selects ("#" past the
\* document's end) and passed __post_init__.
DocumentText == <<"a", "b", "c", "d", "e", "f", "g", "h", "i", "j">>
Contents == {SubSeq(DocumentText, 1, n) : n \in 0..MaxContentLen}
RefDocs == {"ref1.md", "ref2.md"}
RangeText(c, s, e) ==
    [i \in 1..(e - s + 1) |-> IF s + i <= Len(c) THEN c[s + i] ELSE "#"]
InputMatches(c) ==
    {m \in {PlagiarismMatch(RangeText(c, s, e), s, e, <<"r">>, 0, 0, d,
                            <<1, 2>>) :
                s \in 0..MaxContentLen, e \in 0..MaxContentLen, d \in RefDocs} :
        m.input_sentence # <<>> /\ PostInit(m) = "ok"}
MatchLists(c) == UNION {[1..n -> InputMatches(c)] : n \in 0..MaxMatches}

SegIdle ==
    /\ content = <<>> /\ matches = <<>> /\ positions = <<>>
    /\ segments = <<>> /\ current_pos = 0 /\ active_matches = <<>>
    /\ pos_idx = 0 /\ seg_pc = "idle"
SentIdle == text = <<>> /\ sentences = <<>> /\ sent_pc = "idle"

SegInit ==
    /\ content \in Contents
    /\ matches \in MatchLists(content)
    /\ positions = <<>>
    /\ segments = <<>>
    /\ current_pos = 0
    /\ active_matches = <<>>
    /\ pos_idx = 0
    /\ seg_pc = "start"

\* Lines 43-56: the events are collected and sorted.
BuildPositions ==
    /\ seg_pc = "start"
    /\ positions' = SortPositions(EventsOf(matches))
    /\ seg_pc' = "lead"
    /\ UNCHANGED <<content, matches, segments, current_pos, active_matches,
                   pos_idx>>
    /\ UNCHANGED <<sentVars, chkVars, pmVars, metVars, runVars>>

\* Lines 62-72: text before the first position.
LeadingText ==
    /\ seg_pc = "lead"
    /\ IF positions # <<>> /\ positions[1].pos > 0
       THEN /\ segments' = Append(segments,
                                  LeadSegment(content, positions[1].pos))
            /\ current_pos' = positions[1].pos
       ELSE UNCHANGED <<segments, current_pos>>
    /\ seg_pc' = "loop"
    /\ UNCHANGED <<content, matches, positions, active_matches, pos_idx>>
    /\ UNCHANGED <<sentVars, chkVars, pmVars, metVars, runVars>>

\* Lines 74-100: one iteration of the loop over positions.
ProcessPosition ==
    /\ seg_pc = "loop"
    /\ pos_idx < Len(positions)
    /\ LET ev == positions[pos_idx + 1]
       IN  /\ segments' = EmitSegment(segments, content, current_pos,
                                       ev.pos, active_matches)
           /\ active_matches' = UpdateActive(active_matches, ev)
           /\ current_pos' = ev.pos
    /\ pos_idx' = pos_idx + 1
    /\ UNCHANGED <<content, matches, positions, seg_pc>>
    /\ UNCHANGED <<sentVars, chkVars, pmVars, metVars, runVars>>

\* Lines 102-114: the final segment, and the return.
FinalSegment ==
    /\ seg_pc = "loop"
    /\ pos_idx = Len(positions)
    /\ segments' =
         IF current_pos < Len(content)
         THEN Append(segments, TailSegment(content, current_pos))
         ELSE segments
    /\ seg_pc' = "done"
    /\ UNCHANGED <<content, matches, positions, current_pos, active_matches,
                   pos_idx>>
    /\ UNCHANGED <<sentVars, chkVars, pmVars, metVars, runVars>>

\* load_files: the PlagiarismMatch built from one entry of the JSON list,
\* field for field.
LoadMatch(rec) ==
    PlagiarismMatch(rec.input_sentence, rec.input_start_pos,
                    rec.input_end_pos, rec.reference_sentence,
                    rec.reference_start_pos, rec.reference_end_pos,
                    rec.reference_document, rec.similarity_score)

(***************************************************************************)
(* Direct calls of the metrics of similarity.py.                           *)
(***************************************************************************)
TokenUniverse == {<<DocumentText[k]>> : k \in 1..MaxTokens}
TokenSets == SUBSET TokenUniverse
StringAlphabet == {"a", "b"}
MetricStrings == StringsUpTo(StringAlphabet, MaxStringLen)
\* The default p = 0.1 and another boost factor.
Boosts == {<<1, 10>>, <<1, 4>>}

MetInit ==
    /\ \/ /\ met_pc = "sets"
          /\ met_arg1 \in TokenSets
          /\ met_arg2 \in TokenSets
       \/ /\ met_pc = "strings"
          /\ met_arg1 \in MetricStrings
          /\ met_arg2 \in MetricStrings
    /\ met_p = Zero
    /\ met_name = "none"
    /\ met_out = Zero

\* jaccard_similarity(set1, set2).
CallJaccard ==
    /\ met_pc = "sets"
    /\ met_name' = "jaccard_similarity"
    /\ met_out' = jaccard_similarity(met_arg1, met_arg2)
    /\ met_pc' = "done"
    /\ UNCHANGED <<met_arg1, met_arg2, met_p>>
    /\ UNCHANGED <<segVars, sentVars, chkVars, pmVars, runVars>>

\* cosine_similarity(set1, set2).
CallCosine ==
    /\ met_pc = "sets"
    /\ met_name' = "cosine_similarity"
    /\ met_out' = cosine_similarity(met_arg1, met_arg2)
    /\ met_pc' = "done"
    /\ UNCHANGED <<met_arg1, met_arg2, met_p>>
    /\ UNCHANGED <<segVars, sentVars, chkVars, pmVars, runVars>>

\* sorensen_dice_similarity(set1, set2).
CallSorensenDice ==
    /\ met_pc = "sets"
    /\ met_name' = "sorensen_dice_similarity"
    /\ met_out' = sorensen_dice_similarity(met_arg1, met_arg2)
    /\ met_pc' = "done"
    /\ UNCHANGED <<met_arg1, met_arg2, met_p>>
    /\ UNCHANGED <<segVars, sentVars, chkVars, pmVars, runVars>>

\* overlap_similarity(set1, set2).
CallOverlap ==
    /\ met_pc = "sets"
    /\ met_name' = "overlap_similarity"
    /\ met_out' = overlap_similarity(met_arg1, met_arg2)
    /\ met_pc' = "done"
    /\ UNCHANGED <<met_arg1, met_arg2, met_p>>
    /\ UNCHANGED <<segVars, sentVars, chkVars, pmVars, runVars>>

\* tversky_similarity(set1, set2).
CallTversky ==
    /\ met_pc = "sets"
    /\ met_name' = "tversky_similarity"
    /\ met_out' = tversky_similarity(met_arg1, met_arg2)
    /\ met_pc' = "done"
    /\ UNCHANGED <<met_arg1, met_arg2, met_p>>
    /\ UNCHANGED <<segVars, sentVars, chkVars, pmVars, runVars>>

\* jaro_similarity(s1, s2).
CallJaro ==
    /\ met_pc = "strings"
    /\ met_name' = "jaro_similarity"
    /\ met_out' = jaro_similarity(met_arg1, met_arg2)
    /\ met_pc' = "done"
    /\ UNCHANGED <<met_arg1, met_arg2, met_p>>
    /\ UNCHANGED <<segVars, sentVars, chkVars, pmVars, runVars>>

\* jaro_winkler_similarity(s1, s2, p).
CallJaroWinkler ==
    /\ met_pc = "strings"
    /\ \E p \in Boosts :
          /\ met_p' = p
          /\ met_out' = jaro_winkler_similarity(met_arg1, met_arg2, p)
    /\ met_name' = "jaro_winkler_similarity"
    /\ met_pc' = "done"
    /\ UNCHANGED <<met_arg1, met_arg2>>
    /\ UNCHANGED <<segVars, sentVars, chkVars, pmVars, runVars>>

(***************************************************************************)
(* check (plagiarism_checker.py): read the files, split, cross-check,      *)
(* write the requested outputs, return the matches.                        *)
(***************************************************************************)

\* f.read().replace("\n", " ").strip().
ReplaceNewlines(str) ==
    [i \in 1..Len(str) |-> IF str[i] = "\n" THEN " " ELSE str[i]]
FileContent(str) == Strip(ReplaceNewlines(str))

\* What one print call, or one call of _display_similar_sentence, puts on
\* the console.
Printed(kind, what) == [kind |-> kind, what |-> what]

\* _display_similar_sentence for each record of res, in order.
RECURSIVE DisplayAll(_)
DisplayAll(res) ==
    IF res = <<>> THEN <<>>
    ELSE <<Printed("match", Head(res))>> \o DisplayAll(Tail(res))

\* _cross_check_sentences on an empty results list: the list it leaves
\* and how the call ends.
CrossCheckCall(isents, rds, threshold, metric) ==
    IF MetricLookup(metric) = "KeyError"
    THEN [results |-> <<>>, pc |-> "key_error"]
    ELSE CrossCheckFrom(Triples(isents, rds, 1), 1, metric, threshold, <<>>)

ExaminedTexts ==
    {<<>>, <<"a", " ", "b">>, <<"a", " ", "b", ".", "\n", "a">>,
     <<" ", "a", ".", " ", "b", "\n">>}
ReferenceFileLists ==
    {<<>>,
     <<[name |-> "ref1.txt", content |-> <<"a", " ", "b">>]>>,
     <<[name |-> "ref1.txt", content |-> <<"a", " ", "b", ".", "\n", "b">>],
       [name |-> "ref2.txt", content |-> <<"\n", "a">>]>>}
RunMetrics ==
    {"jaccard_similarity", "cosine_similarity", "jaro_similarity",
     "levenshtein"}

\* The path of the examined file, and the paths a run opens for reading.
ExaminedFile == "in.txt"
ReadPaths(refs) == {ExaminedFile} \cup {refs[k].name : k \in 1..Len(refs)}

\* Mutant: only the examined file is opened.
ReadFails_ExaminedOnly(missing, refs) == ExaminedFile \in missing

\* open(...) of _get_all_files_content raises FileNotFoundError for the
\* examined file or for one of the reference files.
ReadFails(missing, refs) ==
    \/ ExaminedFile \in missing
    \/ \E k \in 1..Len(refs) : refs[k].name \in missing

RunInit ==
    /\ examined_text \in ExaminedTexts
    /\ reference_files \in ReferenceFileLists
    /\ missing_files \in {{}} \cup {{f} : f \in ReadPaths(reference_files)}
    /\ quiet \in BOOLEAN
    /\ output_file \in {"None", "out.json"}
    /\ text_output_file \in {"None", "out.txt"}
    /\ min_length \in MinLengths
    /\ similarity_threshold \in Thresholds
    /\ similarity_metric \in RunMetrics
    /\ input_doc = <<>> /\ reference_docs = <<>>
    /\ input_sents = <<>> /\ ref_doc_sents = <<>> /\ results = <<>>
    /\ chk_pc = "idle"
    /\ console = <<>> /\ json_written = <<>> /\ text_written = <<>>
    /\ returned = <<>>
    /\ run_pc = "read"

\* Line 187: _get_all_files_content.
GetAllFilesContent ==
    /\ run_pc = "read"
    /\ IF ReadFails(missing_files, reference_files)
       THEN /\ run_pc' = "file_not_found"
            /\ UNCHANGED <<input_doc, reference_docs>>
       ELSE /\ input_doc' = FileContent(examined_text)
            /\ reference_docs' =
                  [k \in 1..Len(reference_files) |->
                      [name |-> reference_files[k].name,
                       content |-> FileContent(reference_files[k].content)]]
            /\ run_pc' = "split"
    /\ UNCHANGED <<min_length, similarity_threshold, similarity_metric,
                   input_sents, ref_doc_sents, results, chk_pc>>
    /\ UNCHANGED <<examined_text, reference_files, missing_files, quiet,
                   output_file,
                   text_output_file, console, json_written, text_written,
                   returned>>
    /\ UNCHANGED <<segVars, sentVars, pmVars, metVars>>

\* Lines 189-191: _split_texts_to_sentences.
RunSplit ==
    /\ run_pc = "split"
    /\ input_sents' = SplitInput(input_doc, min_length)
    /\ ref_doc_sents' = SplitReferences(reference_docs, min_length)
    /\ run_pc' = "match"
    /\ UNCHANGED <<input_doc, reference_docs, min_length,
                   similarity_threshold, similarity_metric, results, chk_pc>>
    /\ UNCHANGED <<examined_text, reference_files, missing_files, quiet,
                   output_file,
                   text_output_file, console, json_written, text_written,
                   returned>>
    /\ UNCHANGED <<segVars, sentVars, pmVars, metVars>>

\* Lines 193-200: _cross_check_sentences, which displays each match it
\* appends unless quiet; an exception it raises ends check.
RunCrossCheck ==
    /\ run_pc = "match"
    /\ LET out == CrossCheckCall(input_sents, ref_doc_sents,
                                 similarity_threshold, similarity_metric)
       IN  /\ results' = out.results
           /\ console' = IF quiet THEN console
                         ELSE console \o DisplayAll(out.results)
           /\ run_pc' = IF out.pc = "done" THEN "json" ELSE "raised"
    /\ UNCHANGED <<input_doc, reference_docs, min_length,
                   similarity_threshold, similarity_metric, input_sents,
                   ref_doc_sents, chk_pc>>
    /\ UNCHANGED <<examined_text, reference_files, missing_files, quiet,
                   output_file,
                   text_output_file, json_written, text_written, returned>>
    /\ UNCHANGED <<segVars, sentVars, pmVars, metVars>>

\* Lines 204-212: the document names are converted with str (they are
\* strings already) and the JSON file is written if requested.
WriteJson ==
    /\ run_pc = "json"
    /\ IF output_file # "None"
       THEN /\ json_written' = <<results>>
            /\ console' = IF quiet THEN console
                          ELSE Append(console,
                                      Printed("json_saved", output_file))
       ELSE UNCHANGED <<json_written, console>>
    /\ run_pc' = "text"
    /\ UNCHANGED chkVars
    /\ UNCHANGED <<examined_text, reference_files, missing_files, quiet,
                   output_file,
                   text_output_file, text_written, returned>>
    /\ UNCHANGED <<segVars, sentVars, pmVars, metVars>>

\* Lines 215-216 and _write_to_text_file (lines 132-148).
WriteText ==
    /\ run_pc = "text"
    /\ IF text_output_file # "None"
       THEN /\ text_written' = <<results>>
            /\ console' = Append(console,
                                 Printed("text_saved", text_output_file))
       ELSE UNCHANGED <<text_written, console>>
    /\ run_pc' = "return"
    /\ UNCHANGED chkVars
    /\ UNCHANGED <<examined_text, reference_files, missing_files, quiet,
                   output_file,
                   text_output_file, json_written, returned>>
    /\ UNCHANGED <<segVars, sentVars, pmVars, metVars>>

\* Line 218.
Return ==
    /\ run_pc = "return"
    /\ returned' = <<results>>
    /\ run_pc' = "returned"
    /\ UNCHANGED chkVars
    /\ UNCHANGED <<examined_text, reference_files, missing_files, quiet,
                   output_file,
                   text_output_file, console, json_written, text_written>>
    /\ UNCHANGED <<segVars, sentVars, pmVars, metVars>>

(***************************************************************************)
(* The specifications: one per operation, the other operations idle.       *)
(***************************************************************************)
ChkIdle ==
    /\ input_doc = <<>> /\ reference_docs = <<>> /\ min_length = 0
    /\ similarity_threshold = Zero
    /\ similarity_metric = "jaccard_similarity"
    /\ input_sents = <<>> /\ ref_doc_sents = <<>> /\ results = <<>>
    /\ chk_pc = "idle"
PmIdle == pm_args = <<>> /\ pm_obj = <<>> /\ pm_pc = "idle"
MetIdle ==
    /\ met_arg1 = <<>> /\ met_arg2 = <<>> /\ met_p = Zero
    /\ met_name = "none" /\ met_out = Zero /\ met_pc = "idle"
RunIdle ==
    /\ examined_text = <<>> /\ reference_files = <<>> /\ quiet = FALSE
    /\ missing_files = {}
    /\ output_file = "None" /\ text_output_file = "None"
    /\ console = <<>> /\ json_written = <<>>
    /\ text_written = <<>> /\ returned = <<>> /\ run_pc = "idle"

InitSegments == SegInit /\ SentIdle /\ ChkIdle /\ PmIdle /\ MetIdle /\ RunIdle
NextSegments ==
    BuildPositions \/ LeadingText \/ ProcessPosition \/ FinalSegment
SpecSegments == InitSegments /\ [][NextSegments]_vars

InitSentences == SentInit /\ SegIdle /\ ChkIdle /\ PmIdle /\ MetIdle /\ RunIdle
NextSentences == CallTextToSentences
SpecSentences == InitSentences /\ [][NextSentences]_vars

InitCheck == ChkInit /\ SegIdle /\ SentIdle /\ PmIdle /\ MetIdle /\ RunIdle
NextCheck == SplitTextsToSentences \/ CrossCheckSentences
SpecCheck == InitCheck /\ [][NextCheck]_vars

InitMetrics == MetInit /\ SegIdle /\ SentIdle /\ ChkIdle /\ PmIdle /\ RunIdle
NextMetrics ==
    \/ CallJaccard \/ CallCosine \/ CallSorensenDice \/ CallOverlap
    \/ CallTversky \/ CallJaro \/ CallJaroWinkler
SpecMetrics == InitMetrics /\ [][NextMetrics]_vars

InitRun == RunInit /\ SegIdle /\ SentIdle /\ PmIdle /\ MetIdle
NextRun ==
    \/ GetAllFilesContent \/ RunSplit \/ RunCrossCheck \/ WriteJson
    \/ WriteText \/ Return
SpecRun == InitRun /\ [][NextRun]_vars

InitMatch == PmInit /\ SegIdle /\ SentIdle /\ ChkIdle /\ MetIdle /\ RunIdle
NextMatch == Construct
SpecMatch == InitMatch /\ [][NextMatch]_vars

(***************************************************************************)
(* Claims about split_text_into_segments.                                  *)
(***************************************************************************)

RECURSIVE ConcatTexts(_)
ConcatTexts(segs) ==
    IF segs = <<>> THEN <<>> ELSE Head(segs).text \o ConcatTexts(Tail(segs))

\* segs is a partition of [0, Len(c)) into non-empty intervals carrying
\* their own text.
IsPartition(segs, c) ==
    /\ (Len(c) = 0) <=> (segs = <<>>)
    /\ segs # <<>> => segs[1].start = 0 /\ segs[Len(segs)].end = Len(c)
    /\ \A i \in 1..(Len(segs) - 1) : segs[i].end = segs[i + 1].start
    /\ \A i \in 1..Len(segs) :
          /\ 0 <= segs[i].start
          /\ segs[i].start < segs[i].end
          /\ segs[i].end <= Len(c)
          /\ segs[i].text = SubSeq(c, segs[i].start + 1, segs[i].end)
          /\ Len(segs[i].text) = segs[i].end - segs[i].start
    /\ ConcatTexts(segs) = c

\* C1: for any content and any list of successfully constructed matches the
\* returned segments are a partition of [0, len(content)) into non-empty
\* intervals with text == content[start:end], whose texts concatenate to the
\* content; with no matches that is [] or the single whole-text segment.
C1_SegmentsPartitionContent ==
    seg_pc = "done" =>
        /\ IsPartition(segments, content)
        /\ matches = <<>> /\ content # <<>> =>
              segments = <<SegmentType(0, Len(content), content, <<>>)>>

\* m's range covers the segment.
Covers(m, seg) ==
    m.input_start_pos <= seg.start /\ seg.end <= m.input_end_pos

\* C2: a returned segment lists a match of the input exactly when the
\* match's range covers the segment.
C2_ListedIffCovering ==
    seg_pc = "done" =>
        \A i \in 1..Len(segments) : \A j \in 1..Len(matches) :
            InList(matches[j], segments[i].matches)
                <=> Covers(matches[j], segments[i])

\* The inclusive input ranges of two matches share a position.
RangesOverlap(m1, m2) ==
    /\ m1.input_start_pos <= m2.input_end_pos
    /\ m2.input_start_pos <= m1.input_end_pos

\* The indices of the segments that list m.
SegmentsListing(m) ==
    {i \in 1..Len(segments) : InList(m, segments[i].matches)}

\* C3: a match whose input range overlaps no other match of the list is
\* listed by exactly one segment, which starts at input_start_pos and whose
\* text is the match's input_sentence.
C3_LoneMatchIsOneSegment ==
    seg_pc = "done" =>
        \A j \in 1..Len(matches) :
            (\A k \in 1..Len(matches) :
                k # j => ~RangesOverlap(matches[j], matches[k]))
            => /\ Cardinality(SegmentsListing(matches[j])) = 1
               /\ \A i \in SegmentsListing(matches[j]) :
                     /\ segments[i].start = matches[j].input_start_pos
                     /\ segments[i].text = matches[j].input_sentence

(***************************************************************************)
(* Claims about _text_to_sentences.                                        *)
(***************************************************************************)

\* The indices of the returned sentences whose range holds position p.
SentencesHolding(p) ==
    {k \in 1..Len(sentences) :
        sentences[k].start <= p /\ p <= sentences[k].end}

\* C4: every returned sentence (s, start, end) has
\* 0 <= start <= end < len(text), text[start:end+1] == s,
\* len(s) == end - start + 1 and a non-whitespace character; the empty text
\* and an all-whitespace text give the empty list.
C4_SentenceOffsetsExact ==
    sent_pc = "done" =>
        /\ \A k \in 1..Len(sentences) :
              /\ 0 <= sentences[k].start
              /\ sentences[k].start <= sentences[k].end
              /\ sentences[k].end < Len(text)
              /\ sentences[k].sentence =
                    [i \in 1..(sentences[k].end - sentences[k].start + 1) |->
                        text[sentences[k].start + i]]
              /\ Len(sentences[k].sentence) =
                    sentences[k].end - sentences[k].start + 1
              /\ \E i \in 1..Len(sentences[k].sentence) :
                    ~IsSpace(sentences[k].sentence[i])
        /\ (\A i \in 1..Len(text) : IsSpace(text[i])) => sentences = <<>>

\* A text with two sentences, the second one after skipped whitespace.
C4_Witness ==
    /\ sent_pc = "done"
    /\ Len(sentences) = 2
    /\ sentences[2].start > sentences[1].end + 1

\* C5: every non-whitespace position of the text lies in the range of
\* exactly one returned sentence, and the sentences come in increasing
\* position order with disjoint ranges.
C5_NonWhitespaceCoveredOnce ==
    sent_pc = "done" =>
        /\ \A p \in 0..(Len(text) - 1) :
              ~IsSpace(text[p + 1]) => Cardinality(SentencesHolding(p)) = 1
        /\ \A k \in 1..(Len(sentences) - 1) :
              sentences[k].end < sentences[k + 1].start

\* Three sentences, and whitespace that no sentence holds.
C5_Witness ==
    /\ sent_pc = "done"
    /\ Len(sentences) = 3
    /\ \E p \in 0..(Len(text) - 1) :
          IsSpace(text[p + 1]) /\ SentencesHolding(p) = {}

\* C6 as stated: consecutive returned sentences are adjacent,
\* next.start == previous.end + 1.
C6_ConsecutiveAdjacent ==
    sent_pc = "done" =>
        \A k \in 1..(Len(sentences) - 1) :
            sentences[k + 1].start = sentences[k].end + 1

\* C6 amended: consecutive returned sentences do not overlap,
\* next.start >= previous.end + 1, and every character between them is
\* whitespace: the whitespace before a sentence's start is skipped, it is
\* not made part of the previous sentence.
C6_GapsAreWhitespace ==
    sent_pc = "done" =>
        \A k \in 1..(Len(sentences) - 1) :
            /\ sentences[k + 1].start >= sentences[k].end + 1
            /\ \A p \in (sentences[k].end + 1)..(sentences[k + 1].start - 1) :
                  IsSpace(text[p + 1])

\* Two consecutive sentences with skipped whitespace between them, the
\* earlier one ending with the whitespace character of the split.
C6_Witness ==
    /\ sent_pc = "done"
    /\ \E k \in 1..(Len(sentences) - 1) :
          /\ sentences[k + 1].start = sentences[k].end + 2
          /\ IsSpace(text[sentences[k].end + 1])

(***************************************************************************)
(* Claims about _split_texts_to_sentences and _cross_check_sentences.      *)
(***************************************************************************)

\* The text of reference document name, as passed in.
ReferenceContent(name) ==
    LET k == CHOOSE i \in 1..Len(reference_docs) :
                 reference_docs[i].name = name
    IN  reference_docs[k].content

\* doc[start : end + 1] for offsets inside doc, <<>> otherwise.
InclusiveRange(doc, start, end) ==
    IF 0 <= start /\ start <= end /\ end < Len(doc)
    THEN [i \in 1..(end - start + 1) |-> doc[start + i]]
    ELSE <<>>

\* C7: the positions of every match index the documents as passed in:
\* input_doc[input_start_pos : input_end_pos + 1] == input_sentence and
\* reference_docs[reference_document][reference_start_pos :
\* reference_end_pos + 1] == reference_sentence.
C7_PositionsIndexDocuments ==
    chk_pc = "done" =>
        \A k \in 1..Len(results) :
            /\ InclusiveRange(input_doc, results[k].input_start_pos,
                              results[k].input_end_pos)
                  = results[k].input_sentence
            /\ InclusiveRange(ReferenceContent(results[k].reference_document),
                              results[k].reference_start_pos,
                              results[k].reference_end_pos)
                  = results[k].reference_sentence

\* The triples (input sentence index, document index, reference sentence
\* index) of the retained sentences.
TripleIndices ==
    {<<i, d, j>> \in (1..Len(input_sents)) \X (1..Len(ref_doc_sents))
                     \X (1..(MaxDocLen + 4)) :
        j <= Len(ref_doc_sents[d].sents)}

\* The score of a triple, and the record that stands for it.
ScoreOf(tr) ==
    MetricFunction(similarity_metric,
                   Tokens(input_sents[tr[1]].sentence),
                   Tokens(ref_doc_sents[tr[2]].sents[tr[3]].sentence))
RecordOf(tr) ==
    [input_sentence |-> input_sents[tr[1]].sentence,
     input_start_pos |-> input_sents[tr[1]].start,
     input_end_pos |-> input_sents[tr[1]].end,
     reference_sentence |-> ref_doc_sents[tr[2]].sents[tr[3]].sentence,
     reference_start_pos |-> ref_doc_sents[tr[2]].sents[tr[3]].start,
     reference_end_pos |-> ref_doc_sents[tr[2]].sents[tr[3]].end,
     reference_document |-> ref_doc_sents[tr[2]].name,
     similarity_score |-> ScoreOf(tr)]
RecordsFor(tr) == {k \in 1..Len(results) : results[k] = RecordOf(tr)}

\* C8: when _cross_check_sentences returns, results holds exactly one
\* record for every triple whose score is strictly greater than the
\* threshold and none for any other triple (a score equal to the threshold
\* included); a call that raises has appended records of such triples only.
C8_OneRecordPerTripleAbove ==
    /\ chk_pc = "done" =>
          /\ \A tr \in TripleIndices :
                Cardinality(RecordsFor(tr)) =
                    IF ScoreOf(tr)[1] * similarity_threshold[2]
                          > similarity_threshold[1] * ScoreOf(tr)[2]
                    THEN 1 ELSE 0
          /\ \A k \in 1..Len(results) :
                \E tr \in TripleIndices : results[k] = RecordOf(tr)
    /\ chk_pc = "error" =>
          \A k \in 1..Len(results) :
              \E tr \in TripleIndices :
                  /\ ScoreOf(tr) # "TypeError"
                  /\ results[k] = RecordOf(tr)
                  /\ FracGreater(ScoreOf(tr), similarity_threshold)

\* A returned call that emitted a record and skipped a triple whose score
\* equals the threshold, among at least three triples.
C8_Witness ==
    /\ chk_pc = "done"
    /\ results # <<>>
    /\ Cardinality(TripleIndices) >= 3
    /\ \E tr \in TripleIndices :
          /\ FracEqual(ScoreOf(tr), similarity_threshold)
          /\ ScoreOf(tr)[1] > 0
          /\ RecordsFor(tr) = {}

\* C9: for each of the seven metrics and a threshold below 1, a retained
\* input sentence identical to a retained reference sentence scores 1.0
\* and a match for the pair is emitted.
C9_IdenticalSentenceEmitted ==
    (chk_pc \in {"done", "error"} /\ similarity_metric \in MetricNames) =>
        \A tr \in TripleIndices :
            input_sents[tr[1]].sentence
                = ref_doc_sents[tr[2]].sents[tr[3]].sentence
            => \E k \in 1..Len(results) :
                  /\ results[k].input_sentence = input_sents[tr[1]].sentence
                  /\ results[k].input_start_pos = input_sents[tr[1]].start
                  /\ results[k].reference_document = ref_doc_sents[tr[2]].name
                  /\ results[k].reference_start_pos
                        = ref_doc_sents[tr[2]].sents[tr[3]].start
                  /\ FracEqual(results[k].similarity_score, <<1, 1>>)

(***************************************************************************)
(* Claims about PlagiarismMatch.                                           *)
(***************************************************************************)

InputLengthOk ==
    Len(pm_args.input_sentence)
        = pm_args.input_end_pos - pm_args.input_start_pos + 1
ReferenceLengthOk ==
    Len(pm_args.reference_sentence)
        = pm_args.reference_end_pos - pm_args.reference_start_pos + 1
ScoreOk ==
    /\ 0 <= pm_args.similarity_score[1]
    /\ pm_args.similarity_score[1] <= pm_args.similarity_score[2]

\* C10: construction succeeds exactly when both sentence lengths equal
\* end - start + 1 and 0 <= similarity_score <= 1; otherwise ValueError is
\* raised, for the input check first, then the reference check, then the
\* score; a constructed object holds the arguments unchanged.
C10_ConstructionIffValid ==
    pm_pc \notin {"idle", "call"} =>
        /\ pm_pc = "ok" <=> (InputLengthOk /\ ReferenceLengthOk /\ ScoreOk)
        /\ ~InputLengthOk => pm_pc = "input_length_error"
        /\ InputLengthOk /\ ~ReferenceLengthOk
              => pm_pc = "reference_length_error"
        /\ InputLengthOk /\ ReferenceLengthOk /\ ~ScoreOk
              => pm_pc = "score_error"
        /\ pm_pc = "ok" => pm_obj = pm_args
        /\ pm_pc # "ok" => pm_obj = <<>>

\* All three checks would fail, and the input check is the one reported.
C10_Witness ==
    /\ pm_pc = "input_length_error"
    /\ ~ReferenceLengthOk
    /\ ~ScoreOk

\* C11: constructing a PlagiarismMatch whose input_end_pos is less than its
\* input_start_pos always raises ValueError, whatever the sentence texts.
C11_EndBeforeStartRejected ==
    pm_pc \notin {"idle", "call"} =>
        (pm_args.input_end_pos < pm_args.input_start_pos => pm_pc # "ok")

\* C12: for a metric name that is not one of the seven, and for every
\* input, _cross_check_sentences fails with an error and appends nothing to
\* results.
C12_UnknownMetricFails ==
    (chk_pc \notin {"idle", "start", "split"}
        /\ similarity_metric \notin MetricNames) =>
        /\ chk_pc \in {"key_error", "error"}
        /\ results = <<>>

\* The score of a triple when the character-sequence metric is given the
\* two raw sentence strings.
RawStringScore(tr) ==
    IF similarity_metric = "jaro_similarity"
    THEN jaro_similarity(input_sents[tr[1]].sentence,
                         ref_doc_sents[tr[2]].sents[tr[3]].sentence)
    ELSE jaro_winkler_similarity(input_sents[tr[1]].sentence,
                                 ref_doc_sents[tr[2]].sents[tr[3]].sentence,
                                 <<1, 10>>)

\* The records of results that stand for the sentences of a triple.
RecordsOfPair(tr) ==
    {k \in 1..Len(results) :
        /\ results[k].input_sentence = input_sents[tr[1]].sentence
        /\ results[k].input_start_pos = input_sents[tr[1]].start
        /\ results[k].reference_document = ref_doc_sents[tr[2]].name
        /\ results[k].reference_sentence
              = ref_doc_sents[tr[2]].sents[tr[3]].sentence
        /\ results[k].reference_start_pos
              = ref_doc_sents[tr[2]].sents[tr[3]].start}

\* C13: with jaro_similarity or jaro_winkler_similarity the metric is called
\* with the two raw sentence strings, and the call completes with the
\* matches whose score on the raw strings is above the threshold.
C13_JaroOnRawStrings ==
    (chk_pc \notin {"idle", "start", "split"}
        /\ similarity_metric
              \in {"jaro_similarity", "jaro_winkler_similarity"}) =>
        /\ chk_pc = "done"
        /\ \A tr \in TripleIndices :
              RecordsOfPair(tr) # {}
                  <=> FracGreater(RawStringScore(tr), similarity_threshold)

\* sub is a subsequence of seq.
RECURSIVE IsSubsequence(_, _)
IsSubsequence(sub, seq) ==
    IF sub = <<>> THEN TRUE
    ELSE IF seq = <<>> THEN FALSE
    ELSE IF Head(sub) = Head(seq) THEN IsSubsequence(Tail(sub), Tail(seq))
    ELSE IsSubsequence(sub, Tail(seq))

\* The call on the same sentence lists and metric with threshold t and an
\* empty results list.
ResultsAt(t) ==
    CrossCheckFrom(Triples(input_sents, ref_doc_sents, 1), 1,
                   similarity_metric, t, <<>>)

\* The thresholds the returned list is compared at.
ComparedThresholds == Thresholds \cup {<<1, 4>>, <<3, 4>>, <<1, 1>>}

\* f <= g for fractions with positive denominators.
FracLeq(f, g) == ~FracGreater(f, g)

\* C14: for fixed sentence lists and metric and thresholds t_low <= t_high,
\* the match list at t_high is a subsequence of the match list at t_low, so
\* the count at t_low is at least the count at t_high.
C14_HigherThresholdSubsequence ==
    chk_pc = "done" =>
        \A t \in ComparedThresholds :
            /\ ResultsAt(t).pc = "done"
            /\ FracLeq(t, similarity_threshold) =>
                  /\ IsSubsequence(results, ResultsAt(t).results)
                  /\ Len(ResultsAt(t).results) >= Len(results)
            /\ FracLeq(similarity_threshold, t) =>
                  /\ IsSubsequence(ResultsAt(t).results, results)
                  /\ Len(results) >= Len(ResultsAt(t).results)

\* A call that returned a match at threshold 0.5 while threshold 0 gives
\* strictly more matches and threshold 1 strictly fewer.
C14_Witness ==
    /\ chk_pc = "done"
    /\ FracEqual(similarity_threshold, <<1, 2>>)
    /\ Len(results) >= 1
    /\ Len(ResultsAt(Zero).results) > Len(results)
    /\ Len(ResultsAt(<<1, 1>>).results) < Len(results)

\* kept holds exactly the sentences of all that have at least min_length
\* characters, in the order of all.
KeepsLongEnough(kept, all) ==
    /\ IsSubsequence(kept, all)
    /\ \A k \in 1..Len(kept) : Len(kept[k].sentence) >= min_length
    /\ \A k \in 1..Len(all) :
          Len(all[k].sentence) >= min_length => InList(all[k], kept)

\* C15: _split_texts_to_sentences keeps exactly the input and reference
\* sentences whose text, as segmented, has at least min_length characters,
\* in their order; every match then has sentences of at least min_length
\* characters.
C15_MinLengthFilter ==
    chk_pc \notin {"idle", "start"} =>
        /\ KeepsLongEnough(input_sents, TextToSentences(input_doc))
        /\ Len(ref_doc_sents) = Len(reference_docs)
        /\ \A d \in 1..Len(ref_doc_sents) :
              /\ ref_doc_sents[d].name = reference_docs[d].name
              /\ KeepsLongEnough(
                     ref_doc_sents[d].sents,
                     TextToSentences(Strip(reference_docs[d].content)))
        /\ \A k \in 1..Len(results) :
              /\ Len(results[k].input_sentence) >= min_length
              /\ Len(results[k].reference_sentence) >= min_length

\* A match whose input sentence has exactly min_length = 2 characters,
\* while a shorter reference sentence was dropped.
C15_Witness ==
    /\ chk_pc = "done"
    /\ min_length = 2
    /\ \E k \in 1..Len(results) : Len(results[k].input_sentence) = 2
    /\ \E d \in 1..Len(ref_doc_sents) :
          Len(ref_doc_sents[d].sents)
              < Len(TextToSentences(Strip(reference_docs[d].content)))

\* Lexicographic order on (input sentence index, document index, reference
\* sentence index).
LexLess(tr1, tr2) ==
    \/ tr1[1] < tr2[1]
    \/ tr1[1] = tr2[1] /\ tr1[2] < tr2[2]
    \/ tr1[1] = tr2[1] /\ tr1[2] = tr2[2] /\ tr1[3] < tr2[3]

\* C16: the records are appended in increasing lexicographic order of
\* (input sentence index, reference document insertion index, reference
\* sentence index), and a second run on the same inputs gives the same
\* sequence.
C16_MatchesInLoopOrder ==
    chk_pc \in {"done", "error"} =>
        /\ \A k \in 1..Len(results) :
              \E tr \in TripleIndices : k \in RecordsOfPair(tr)
        /\ \A k, l \in 1..Len(results) :
              k < l =>
                \A tr1, tr2 \in TripleIndices :
                    (k \in RecordsOfPair(tr1) /\ l \in RecordsOfPair(tr2))
                        => LexLess(tr1, tr2)
        /\ results = ResultsAt(similarity_threshold).results

\* Matches of two input sentences, in two reference documents, and of two
\* sentences of one document with one input sentence.
C16_Witness ==
    /\ chk_pc = "done"
    /\ \E k, l \in 1..Len(results) :
          results[k].input_start_pos # results[l].input_start_pos
    /\ \E k, l \in 1..Len(results) :
          /\ results[k].input_start_pos = results[l].input_start_pos
          /\ results[k].reference_document # results[l].reference_document
    /\ \E k, l \in 1..Len(results) :
          /\ results[k].input_start_pos = results[l].input_start_pos
          /\ results[k].reference_document = results[l].reference_document
          /\ results[k].reference_start_pos # results[l].reference_start_pos

(***************************************************************************)
(* Claims about check.                                                     *)
(***************************************************************************)

\* C17: when quiet is True a run of check writes nothing to the console at
\* any step, whichever output files are requested, and the matches are
\* still collected and returned.
C17_QuietPrintsNothing ==
    quiet =>
        /\ console = <<>>
        /\ run_pc = "returned" =>
              returned = <<CrossCheckCall(input_sents, ref_doc_sents,
                                          similarity_threshold,
                                          similarity_metric).results>>

(***************************************************************************)
(* Claims about the metrics of similarity.py.                              *)
(***************************************************************************)

\* out is the ratio num / den, and 0.0 when den is zero.
IsRatioOrZero(out, num, den) ==
    /\ out[2] > 0
    /\ IF den = 0 THEN out[1] = 0 ELSE out[1] * den = num * out[2]

\* C18: each set-based metric returns its defining ratio, and 0.0 when the
\* denominator is zero: jaccard |A&B|/|A|B|, cosine |A&B|/(|A||B|),
\* Sorensen-Dice 2|A&B|/(|A|+|B|), overlap |A&B|/min(|A|,|B|), Tversky
\* |A&B|/(|A&B| + 0.5|A\B| + 0.5|B\A|).
C18_SetMetricsDefiningRatio ==
    (met_pc = "done"
        /\ met_name \notin {"jaro_similarity", "jaro_winkler_similarity"}) =>
        LET A == met_arg1
            B == met_arg2
            i == Cardinality(A \cap B)
        IN  CASE met_name = "jaccard_similarity" ->
                   IsRatioOrZero(met_out, i, Cardinality(A \cup B))
              [] met_name = "cosine_similarity" ->
                   IsRatioOrZero(met_out, i, Cardinality(A) * Cardinality(B))
              [] met_name = "sorensen_dice_similarity" ->
                   IsRatioOrZero(met_out, 2 * i,
                                 Cardinality(A) + Cardinality(B))
              [] met_name = "overlap_similarity" ->
                   IsRatioOrZero(met_out, i,
                                 IF Cardinality(A) <= Cardinality(B)
                                 THEN Cardinality(A) ELSE Cardinality(B))
              [] met_name = "tversky_similarity" ->
                   IsRatioOrZero(met_out, 2 * i,
                                 2 * i + Cardinality(A \ B)
                                       + Cardinality(B \ A))

\* overlap_similarity returned 0.0 for an empty set against a non-empty
\* one, where the denominator min(|A|, |B|) is zero.
C18_Witness ==
    /\ met_pc = "done"
    /\ met_name = "overlap_similarity"
    /\ met_arg1 = {}
    /\ met_arg2 # {}
    /\ met_out[1] = 0

\* The canonical pairing: the characters of s1 from position i on, in
\* order, each paired with the first character of s2 that is equal, within
\* the window w and not yet paired (used holds the paired positions of s2).
RECURSIVE PairUp(_, _, _, _, _)
PairUp(s1, s2, w, i, used) ==
    IF i > Len(s1) THEN <<>>
    ELSE LET cand == {j \in 1..Len(s2) :
                         /\ j \notin used
                         /\ s2[j] = s1[i]
                         /\ j - i <= w
                         /\ i - j <= w}
         IN  IF cand = {} THEN PairUp(s1, s2, w, i + 1, used)
             ELSE LET j == CHOOSE x \in cand : \A y \in cand : x <= y
                  IN  << <<i, j>> >>
                      \o PairUp(s1, s2, w, i + 1, used \cup {j})

\* The canonical Jaro similarity: m paired characters, t half the number
\* of positions at which the paired characters of s1 and of s2, each in
\* its own order, differ, and (m/len1 + m/len2 + (m - t)/m)/3.
CanonicalJaro(s1, s2) ==
    LET w == (Max(Len(s1), Len(s2)) \div 2) - 1
        pairs == PairUp(s1, s2, w, 1, {})
        m == Len(pairs)
        js == {pairs[k][2] : k \in 1..m}
        jAt(k) == CHOOSE j \in js : Cardinality({x \in js : x <= j}) = k
        t == Cardinality({k \in 1..m : s1[pairs[k][1]] # s2[jAt(k)]}) \div 2
    IN  IF m = 0 THEN Zero
        ELSE <<m * m * Len(s2) + m * m * Len(s1)
                   + (m - t) * Len(s1) * Len(s2),
               3 * Len(s1) * Len(s2) * m>>

\* C19: jaro_similarity(s1, s2) equals the canonical Jaro similarity for
\* all strings, so two strings that differ by a swap of two distinct
\* matched characters score strictly below 1.
C19_JaroIsCanonical ==
    (met_pc = "done" /\ met_name = "jaro_similarity") =>
        FracEqual(met_out, CanonicalJaro(met_arg1, met_arg2))

\* The length of the common prefix counted up to at most 4 characters.
CappedPrefixLen(s1, s2) ==
    IF CommonPrefixLen(s1, s2, 0) <= 4 THEN CommonPrefixLen(s1, s2, 0) ELSE 4

\* C20: jaro_winkler_similarity(s1, s2, p) returns jaro + L p (1 - jaro)
\* with L the length of the common prefix counted up to at most 4, so a
\* longer common prefix gives the bonus of one of length 4.
C20_WinklerPrefixCapped ==
    (met_pc = "done" /\ met_name = "jaro_winkler_similarity") =>
        LET jaro == jaro_similarity(met_arg1, met_arg2)
            L == CappedPrefixLen(met_arg1, met_arg2)
        IN  FracEqual(met_out,
                      <<jaro[1] * met_p[2] + L * met_p[1] * (jaro[2] - jaro[1]),
                        jaro[2] * met_p[2]>>)

\* C21: every one of the seven metrics returns a score in the closed
\* interval [0, 1] for every input.
C21_ScoresInUnitInterval ==
    met_pc = "done" => (met_out[2] > 0 /\ ScoreInUnitInterval(met_out))

\* C22: if the examined file or a reference file cannot be read, check
\* ends with the read failure and writes no JSON or text output file;
\* output files are written only after all documents were read and the
\* matching finished.
C22_ReadFailureSurfaced ==
    /\ (run_pc # "idle" /\ missing_files \cap ReadPaths(reference_files) # {})
          => /\ run_pc \in {"read", "file_not_found"}
             /\ json_written = <<>>
             /\ text_written = <<>>
             /\ returned = <<>>
    /\ (json_written # <<>> \/ text_written # <<>>)
          => /\ run_pc \in {"text", "return", "returned"}
             /\ missing_files \cap ReadPaths(reference_files) = {}
    /\ run_pc = "file_not_found"
          => missing_files \cap ReadPaths(reference_files) # {}

\* A run with both output files requested that failed on its second
\* reference file, the examined file and the first reference being there.
C22_Witness ==
    /\ run_pc = "file_not_found"
    /\ output_file # "None"
    /\ text_output_file # "None"
    /\ Len(reference_files) = 2
    /\ missing_files = {reference_files[2].name}

\* The character of the text at index i is whitespace directly after
\* '.', '?' or '!' and neither abbreviation pattern ends before it.
C23_BoundarySpace(i) ==
    /\ 1 <= i /\ i < Len(text)
    /\ text[i + 1] \in {" ", "\t", "\n"}
    /\ text[i] \in {".", "?", "!"}
    /\ ~(/\ i >= 4
         /\ IsWord(text[i - 3])
         /\ text[i - 2] = "."
         /\ IsWord(text[i - 1]))
    /\ ~(/\ i >= 3
         /\ IsUpper(text[i - 2])
         /\ IsLower(text[i - 1])
         /\ text[i] = ".")

\* C23: a sentence boundary lies exactly after each whitespace character
\* that directly follows '.', '?' or '!' and is not excluded by an
\* abbreviation pattern, and nowhere else: that whitespace is the last
\* character of a returned sentence, the next range begins at the
\* following position (the next returned sentence after at most more
\* whitespace), and every returned sentence ends at such a whitespace or at
\* the end of the text.
C23_BoundaryAfterTerminatorSpace ==
    sent_pc = "done" =>
        /\ \A i \in 0..(Len(text) - 1) :
              C23_BoundarySpace(i) =>
                  /\ \E j \in 1..Len(SentencePositions(text)) :
                        SentencePositions(text)[j] = i + 1
                  /\ \E k \in 1..Len(sentences) :
                        /\ sentences[k].end = i
                        /\ k < Len(sentences) =>
                              /\ sentences[k + 1].start >= i + 1
                              /\ \A q \in (i + 1)..(sentences[k + 1].start - 1) :
                                    IsSpace(text[q + 1])
        /\ \A k \in 1..Len(sentences) :
              \/ sentences[k].end = Len(text) - 1
              \/ C23_BoundarySpace(sentences[k].end)
        /\ \A j \in 2..(Len(SentencePositions(text)) - 1) :
              C23_BoundarySpace(SentencePositions(text)[j] - 1)

\* A text split at one terminator whitespace and not at another one that
\* an abbreviation pattern excludes.
C23_Witness ==
    /\ sent_pc = "done"
    /\ Len(sentences) = 2
    /\ \E i \in 1..(Len(text) - 1) :
          /\ IsSpace(text[i + 1])
          /\ IsTerminator(text[i])
          /\ ~C23_BoundarySpace(i)

\* The whitespace at index i, not the last character of the text, follows
\* the period of a single-letter initial: one uppercase letter that no word
\* character precedes, and '.'.
C24_AfterInitial(i) ==
    /\ 2 <= i /\ i < Len(text) - 1
    /\ IsSpace(text[i + 1])
    /\ text[i] = "."
    /\ IsUpper(text[i - 1])
    /\ (i = 2 \/ ~IsWord(text[i - 2]))

\* The whitespace at index i, not the last character of the text, follows
\* a dotted abbreviation: word character, '.', word character, '.'.
C24_AfterDotted(i) ==
    /\ 4 <= i /\ i < Len(text) - 1
    /\ IsSpace(text[i + 1])
    /\ text[i] = "."
    /\ IsWord(text[i - 1])
    /\ text[i - 2] = "."
    /\ IsWord(text[i - 3])

\* The whitespace at index i, not the last character of the text, follows
\* an uppercase letter, a lowercase letter and '.'.
C24_AfterTitle(i) ==
    /\ 3 <= i /\ i < Len(text) - 1
    /\ IsSpace(text[i + 1])
    /\ text[i] = "."
    /\ IsLower(text[i - 1])
    /\ IsUpper(text[i - 2])

\* One returned sentence begins before index i and ends after it.
C24_NotSplitAt(i) ==
    \E k \in 1..Len(sentences) :
        sentences[k].start < i /\ i < sentences[k].end

\* C24 as stated: the whitespace after the period of a single-letter
\* initial such as "A." or of a dotted abbreviation such as "e.g." never
\* splits the text.
C24_NoSplitAfterInitialOrDotted ==
    sent_pc = "done" =>
        \A i \in 0..(Len(text) - 1) :
            (C24_AfterInitial(i) \/ C24_AfterDotted(i)) => C24_NotSplitAt(i)

\* C24: the whitespace after an uppercase letter, a lowercase letter and a
\* period (as in "Dr.") or after a dotted abbreviation (as in "e.g.") never
\* splits the text: one returned sentence runs across it.
C24_NoSplitAfterTitleOrDotted ==
    sent_pc = "done" =>
        \A i \in 0..(Len(text) - 1) :
            (C24_AfterTitle(i) \/ C24_AfterDotted(i)) => C24_NotSplitAt(i)

\* A text whose sentence runs across the whitespace after "Aa." to the
\* non-whitespace character behind it.
C24_Witness ==
    /\ sent_pc = "done"
    /\ \E i \in 0..(Len(text) - 1) :
          /\ C24_AfterTitle(i)
          /\ ~IsSpace(text[i + 2])
          /\ C24_NotSplitAt(i)

\* C25: the events are processed in non-decreasing position order, at equal
\* positions every end event before every start event; and if a match A
\* ends exactly where a different match B begins, both with start < end, no
\* returned segment lists both A and B.
C25_EndsBeforeStarts ==
    /\ \A i \in 1..Len(positions) : \A j \in (i + 1)..Len(positions) :
          /\ positions[i].pos <= positions[j].pos
          /\ positions[i].pos = positions[j].pos =>
                ~(positions[i].type = "start" /\ positions[j].type = "end")
    /\ \A a \in 1..Len(matches) : \A b \in 1..Len(matches) :
          (/\ matches[a] # matches[b]
           /\ matches[a].input_start_pos < matches[a].input_end_pos
           /\ matches[b].input_start_pos < matches[b].input_end_pos
           /\ matches[a].input_end_pos = matches[b].input_start_pos)
          => \A k \in 1..Len(segments) :
                ~(/\ InList(matches[a], segments[k].matches)
                  /\ InList(matches[b], segments[k].matches))

\* A finished sweep over a match that ends where the other one begins, both
\* inside the content and each listed by a segment, the later match being
\* first in the input list.
C25_Witness ==
    /\ seg_pc = "done"
    /\ Len(matches) = 2
    /\ matches[2].input_start_pos < matches[2].input_end_pos
    /\ matches[1].input_start_pos < matches[1].input_end_pos
    /\ matches[2].input_end_pos = matches[1].input_start_pos
    /\ matches[1].input_end_pos < Len(content)
    /\ \E k \in 1..Len(segments) : segments[k].matches = <<matches[1]>>
    /\ \E k \in 1..Len(segments) : segments[k].matches = <<matches[2]>>

\* Matches a and b of the input list are distinct and have identical input
\* positions.
C26_SameSpan(a, b) ==
    /\ matches[a] # matches[b]
    /\ matches[a].input_start_pos = matches[b].input_start_pos
    /\ matches[a].input_end_pos = matches[b].input_end_pos

\* Position p lies in the inclusive input range of match a.
C26_InSpan(a, p) ==
    matches[a].input_start_pos <= p /\ p <= matches[a].input_end_pos

\* C26: for two distinct matches with identical input positions, every
\* returned segment lists one of them if and only if it lists the other;
\* every character of their common range lies in a segment that lists both
\* and every other character of the content lies in a segment that lists
\* neither.
C26_SameSpanListedTogether ==
    seg_pc = "done" =>
        \A a \in 1..Len(matches) : \A b \in 1..Len(matches) :
            C26_SameSpan(a, b) =>
                /\ \A k \in 1..Len(segments) :
                      InList(matches[a], segments[k].matches)
                          <=> InList(matches[b], segments[k].matches)
                /\ \A p \in 0..(Len(content) - 1) :
                      \E k \in 1..Len(segments) :
                          /\ segments[k].start <= p /\ p < segments[k].end
                          /\ InList(matches[a], segments[k].matches)
                                <=> C26_InSpan(a, p)
                          /\ InList(matches[b], segments[k].matches)
                                <=> C26_InSpan(b, p)

\* C27: the call only reads its inputs and only appends to its output: no
\* step changes the content or the matches list, and no step changes or
\* drops a segment that was already emitted, whatever happens to the
\* active list afterwards.
C27_InputsReadOutputAppended ==
    [][/\ content' = content
       /\ matches' = matches
       /\ Len(segments') >= Len(segments)
       /\ \A k \in 1..Len(segments) : segments'[k] = segments[k]]_vars

\* In the loop, the last emitted segment lists matches and the active list
\* has changed since.
C27_Witness ==
    /\ seg_pc = "loop"
    /\ segments # <<>>
    /\ segments[Len(segments)].matches # <<>>
    /\ active_matches # segments[Len(segments)].matches

\* The first index of match m in the input match list.
C28_InputIndex(m) ==
    CHOOSE i \in 1..Len(matches) :
        matches[i] = m /\ \A j \in 1..(i - 1) : matches[j] # m

\* The list ms holds no match twice and is in activation order: ascending
\* input_start_pos, ties in the order of the input match list.
C28_ActivationOrder(ms) ==
    \A i \in 1..Len(ms) : \A j \in (i + 1)..Len(ms) :
        /\ ms[i] # ms[j]
        /\ \/ ms[i].input_start_pos < ms[j].input_start_pos
           \/ /\ ms[i].input_start_pos = ms[j].input_start_pos
              /\ C28_InputIndex(ms[i]) < C28_InputIndex(ms[j])

\* C28: at every step of the sweep the active list holds no match twice,
\* and the matches of every emitted segment are in activation order:
\* ascending input_start_pos, ties in the order of the input match list.
C28_ActiveListDuplicateFree ==
    /\ C28_ActivationOrder(active_matches)
    /\ \A k \in 1..Len(segments) : C28_ActivationOrder(segments[k].matches)

\* The start event of a match that an earlier start event had made active
\* has just been processed, and the match is active.
C28_Witness ==
    /\ seg_pc = "loop"
    /\ pos_idx >= 2
    /\ positions[pos_idx].type = "start"
    /\ \E i \in 1..(pos_idx - 1) :
          /\ positions[i].type = "start"
          /\ positions[i].match = positions[pos_idx].match
    /\ InList(positions[pos_idx].match, active_matches)

\* C29: every record the match finder emits with a set-based metric passes
\* the validation of PlagiarismMatch when loaded field for field: both
\* sentence lengths equal end - start + 1 and the score is in [0, 1].
C29_RecordsPassValidation ==
    similarity_metric \notin {"jaro_similarity", "jaro_winkler_similarity"} =>
        \A k \in 1..Len(results) :
            /\ PostInit(LoadMatch(results[k])) = "ok"
            /\ Len(results[k].input_sentence) =
                  results[k].input_end_pos - results[k].input_start_pos + 1
            /\ Len(results[k].reference_sentence) =
                  results[k].reference_end_pos
                      - results[k].reference_start_pos + 1
            /\ ScoreInUnitInterval(results[k].similarity_score)

\* A finished run with a record whose input sentence starts after
\* position 0 and whose sentences are both longer than one character.
C29_Witness ==
    /\ chk_pc = "done"
    /\ \E k \in 1..Len(results) :
          /\ results[k].input_start_pos > 0
          /\ Len(results[k].input_sentence) > 1
          /\ Len(results[k].reference_sentence) > 1
          /\ PostInit(LoadMatch(results[k])) = "ok"

\* The matches are pairwise disjoint and not adjacent, lie inside the
\* content, and text remains after the last of them.
C30_Separated ==
    /\ Len(matches) >= 1
    /\ \A a \in 1..Len(matches) :
          /\ 0 <= matches[a].input_start_pos
          /\ matches[a].input_start_pos <= matches[a].input_end_pos
          /\ matches[a].input_end_pos + 1 < Len(content)
    /\ \A a \in 1..Len(matches) : \A b \in 1..Len(matches) :
          a # b =>
              \/ matches[a].input_end_pos + 1 < matches[b].input_start_pos
              \/ matches[b].input_end_pos + 1 < matches[a].input_start_pos

\* 1 when text precedes the first match, else 0.
C30_Lead ==
    IF \A a \in 1..Len(matches) : matches[a].input_start_pos > 0 THEN 1
    ELSE 0

\* C30: for N matches there are never more than 2N + 1 segments; for
\* N >= 1 pairwise disjoint, non-adjacent matches inside the content with
\* text remaining after the last there are exactly 2N segments, 2N + 1 when
\* text precedes the first match, alternating matched and unmatched.
C30_SegmentCount ==
    seg_pc = "done" =>
        /\ Len(segments) <= 2 * Len(matches) + 1
        /\ C30_Separated =>
              /\ Len(segments) = 2 * Len(matches) + C30_Lead
              /\ \A k \in 1..Len(segments) :
                    segments[k].matches # <<>> <=> (k - C30_Lead) % 2 = 1

====
